---- MODULE Spec2Model ----
\* Three-stage redispatch pipeline of redispatch/electricity_redispatch.py:
\* network model -> zonal market model -> redispatch model.
EXTENDS Integers, Sequences, FiniteSets, TLC

VARIABLES
    heap,       \* the pypsa.Network objects alive, by reference (1 is self.model)
    self,       \* attributes of the RedispatchModel object: name -> reference
    pc,         \* position of RedispatchModel.__init__
    solveLog,   \* the Network.optimize calls made so far: <<model name, outcome>>
    exported,   \* names of the result folders written by export_model_results
    error       \* exception that ended __init__, or "none"

vars == <<heap, self, pc, solveLog, exported, error>>

\* ---------------------------------------------------------------- bounds
NumSnapshots == 2
snapshots == 1..NumSnapshots

\* ------------------------------------------------- float64 values (pandas)
\* A float is n/d in lowest terms with d > 0; d = 0 holds the IEEE specials:
\* 1/0 is +inf, -1/0 is -inf and 0/0 is NaN.
Abs(x) == IF x < 0 THEN -x ELSE x
Sign(x) == IF x < 0 THEN -1 ELSE IF x > 0 THEN 1 ELSE 0

RECURSIVE GCD(_, _)
GCD(a, b) == IF b = 0 THEN a ELSE GCD(b, a % b)

Rat(n, d) ==
    IF d = 0 THEN [n |-> Sign(n), d |-> 0]
    ELSE LET g == GCD(Abs(n), Abs(d))
         IN  [n |-> (Sign(d) * n) \div g, d |-> Abs(d) \div g]

NaNf == Rat(0, 0)
Zero == Rat(0, 1)
One == Rat(1, 1)
IsNaN(x) == x.d = 0 /\ x.n = 0
IsFinite(x) == x.d > 0

FMul(a, b) == IF IsNaN(a) \/ IsNaN(b) THEN NaNf ELSE Rat(a.n * b.n, a.d * b.d)
FNeg(a) == [n |-> -a.n, d |-> a.d]
FSub(a, b) ==
    IF IsNaN(a) \/ IsNaN(b) THEN NaNf
    ELSE IF a.d = 0 /\ b.d = 0 THEN (IF a.n = b.n THEN NaNf ELSE a)
    ELSE Rat(a.n * b.d - b.n * a.d, a.d * b.d)
FAdd(a, b) == FSub(a, FNeg(b))
\* x / y of numpy: a finite non-zero x over 0 is +-inf, 0 / 0 is NaN.
FDiv(a, b) ==
    IF IsNaN(a) \/ IsNaN(b) THEN NaNf
    ELSE IF a.d = 0 THEN (IF b.d = 0 THEN NaNf ELSE Rat(IF b.n < 0 THEN -a.n ELSE a.n, 0))
    ELSE Rat(a.n * b.d, a.d * b.n)
\* a <= b on floats; every comparison with NaN is false.
FLeq(a, b) ==
    /\ ~IsNaN(a) /\ ~IsNaN(b)
    /\ IF a.d = 0 /\ b.d = 0 THEN a.n <= b.n
       ELSE IF a.d = 0 THEN a.n < 0
       ELSE IF b.d = 0 THEN b.n > 0
       ELSE a.n * b.d <= b.n * a.d
\* DataFrame.clip(lower): NaN stays NaN.
clip(x, lower) == IF IsNaN(x) THEN x ELSE IF FLeq(x, lower) THEN lower ELSE x
\* DataFrame.fillna(v): only NaN is replaced, +-inf is kept.
fillna(x, v) == IF IsNaN(x) THEN v ELSE x

\* --------------------------------------------- labels and pandas indexing
\* The missing value of an object column (a bus whose country is unset).
NaN == "NaN"
\* str(x) as Network.madd applies it to the names it is given.
str(x) == IF x = NaN THEN "nan" ELSE x
\* Series == Series, elementwise: a missing value equals nothing.
eq(a, b) == a # NaN /\ b # NaN /\ a = b
\* Series.map(zones) on one label: a label outside zones' index gives NaN.
map(zones, x) == IF x \in DOMAIN zones THEN zones[x] ELSE NaN
\* Series.unique()
unique(zones) == {zones[b] : b \in DOMAIN zones}
\* A cell of a DataFrame after alignment: a column it lacks reads NaN.
cell(df, g, t) == IF g \in DOMAIN df THEN df[g][t] ELSE NaNf
\* df.loc[names]
loc(df, names) == [c \in names |-> df[c]]
\* Network.mremove(class_name, names) on the component's table
mremove(df, names) == loc(df, DOMAIN df \ names)

\* Generator names are token sequences; x + " ramp up" appends a token.
ramp_up(x) == Append(x, " ramp up")
ramp_down(x) == Append(x, " ramp down")

\* get_switchable_as_dense(n, "Generator", attr): the time series where the
\* generator has one, its static value otherwise.
as_dense(n, attr) ==
    [g \in DOMAIN n.generators |->
        [t \in snapshots |->
            IF g \in DOMAIN n.generators_t[attr]
            THEN n.generators_t[attr][g][t]
            ELSE n.generators[g][attr]]]

\* ------------------------------------------------------ Network.copy()
\* The reference Network.copy() returns: a new object, appended to the heap.
copy_shared(h, src) == src
copy(h, src) == Len(h) + 1
\* The heap once the copy is made.
copied(h, src) == Append(h, h[src])

\* ---------------------------------------------------- Network.optimize
\* Capacity the solver may dispatch against: p_nom, or the optimised
\* capacity of an extendable generator.
Capacities(gen) ==
    IF gen.p_nom_extendable THEN {gen.p_nom, FAdd(gen.p_nom, One)} ELSE {gen.p_nom}

\* A dispatch exists only when every generator's bounds are finite and ordered.
BoundsFeasible(n) ==
    \A g \in DOMAIN n.generators : \A t \in snapshots :
        LET lo == as_dense(n, "p_min_pu")[g][t]
            hi == as_dense(n, "p_max_pu")[g][t]
        IN  IsFinite(lo) /\ IsFinite(hi) /\ FLeq(lo, hi)

Extendable(n) == {g \in DOMAIN n.generators : n.generators[g].p_nom_extendable}

\* What one optimize call can do: raise, return a non-ok status (the status
\* is returned, nothing is raised), or return ok with a dispatch on the lower
\* or upper bound of each generator.
SolverOutcomes(n) ==
    {[status |-> s, expand |-> <<>>, level |-> <<>>] : s \in {"error", "infeasible"}}
    \cup
    (IF BoundsFeasible(n)
     THEN {[status |-> "ok", expand |-> e, level |-> l] :
              e \in [Extendable(n) -> BOOLEAN],
              l \in [DOMAIN n.generators -> {"p_min_pu", "p_max_pu"}]}
     ELSE {})

p_nom_opt(n, o, g) ==
    IF g \in DOMAIN o.expand /\ o.expand[g]
    THEN FAdd(n.generators[g].p_nom, One)
    ELSE n.generators[g].p_nom

\* The network after optimize returned outcome o: the solution is assigned
\* only when the status is ok.
optimize(n, o) ==
    IF o.status = "ok"
    THEN [n EXCEPT
            !.status = "ok",
            !.generators = [g \in DOMAIN n.generators |->
                [n.generators[g] EXCEPT !.p_nom_opt = p_nom_opt(n, o, g)]],
            !.generators_t.p = [g \in DOMAIN n.generators |->
                [t \in snapshots |->
                    FMul(as_dense(n, o.level[g])[g][t], p_nom_opt(n, o, g))]]]
    ELSE [n EXCEPT !.status = o.status]

\* ------------------------------------------ bidding-zone aggregation
\* c.df.bus = c.df.bus.map(zones), for a one-port component
map_one_port(df, zones) ==
    [c \in DOMAIN df |-> [df[c] EXCEPT !.bus = map(zones, @)]]

\* c.df.bus0 = c.df.bus0.map(zones); c.df.bus1 = c.df.bus1.map(zones)
map_branch_bus0_only(df, zones) ==
    [c \in DOMAIN df |-> [df[c] EXCEPT !.bus0 = map(zones, @)]]
map_branch(df, zones) ==
    [c \in DOMAIN df |-> [df[c] EXCEPT !.bus0 = map(zones, @), !.bus1 = map(zones, @)]]

\* c.df.loc[internal].index where internal = c.df.bus0 == c.df.bus1
internal(df) == {c \in DOMAIN df : eq(df[c].bus0, df[c].bus1)}

\* Network.madd("Bus", names): one bus per name, its country not set.
madd_bus(df, names) ==
    [b \in DOMAIN df \cup {str(z) : z \in names} |->
        IF b \in DOMAIN df THEN df[b] ELSE NaN]

\* remove the previous buses, then add the bidding zones as the new buses
buses_removed_after_add(n, zones) ==
    mremove(madd_bus(n.buses, unique(zones)), DOMAIN n.buses)
zone_buses(n, zones) ==
    madd_bus(mremove(n.buses, DOMAIN n.buses), unique(zones))

\* The market network once the bus references are rewritten.
aggregate(n, zones) ==
    LET lines == map_branch(n.lines, zones)
        links == map_branch(n.links, zones)
    IN  [n EXCEPT
            !.generators = map_one_port(n.generators, zones),
            !.loads = map_one_port(n.loads, zones),
            !.lines = mremove(lines, internal(lines)),
            !.links = mremove(links, internal(links)),
            !.buses = zone_buses(n, zones)]

\* ------------------------------------------------ generator splitting
\* p = (market.generators_t.p / market.generators.p_nom).fillna(0)
realized_ratio(mk) ==
    [g \in DOMAIN mk.generators |->
        [t \in snapshots |->
            fillna(FDiv(cell(mk.generators_t.p, g, t), mk.generators[g].p_nom), Zero)]]

\* up = (as_dense(p_max_pu) * p_nom - p).clip(0) / p_nom
up(mk) ==
    [g \in DOMAIN mk.generators |->
        [t \in snapshots |->
            FDiv(clip(FSub(FMul(as_dense(mk, "p_max_pu")[g][t], mk.generators[g].p_nom),
                           cell(mk.generators_t.p, g, t)),
                      Zero),
                 mk.generators[g].p_nom)]]

\* down = -p / p_nom
down(mk) ==
    [g \in DOMAIN mk.generators |->
        [t \in snapshots |->
            FDiv(FNeg(cell(mk.generators_t.p, g, t)), mk.generators[g].p_nom)]]

\* index.map(f) / columns.map(f) on a table keyed by generator name
rename_ramp_up(df) ==
    [c \in {ramp_up(x) : x \in DOMAIN df} |-> df[CHOOSE x \in DOMAIN df : ramp_up(x) = c]]
rename_ramp_down(df) ==
    [c \in {ramp_down(x) : x \in DOMAIN df} |-> df[CHOOSE x \in DOMAIN df : ramp_down(x) = c]]

\* g_up with p_max_pu dropped: every other static column is handed to madd,
\* p_max_pu takes its default 1.0.
g_up(r) == rename_ramp_up([x \in DOMAIN r.generators |->
                              [r.generators[x] EXCEPT !.p_max_pu = One]])
\* g_down with p_max_pu and p_min_pu dropped: p_max_pu=0 is passed, p_min_pu
\* takes its default 0.0 next to the series.
g_down(r) == rename_ramp_down([x \in DOMAIN r.generators |->
                                  [r.generators[x] EXCEPT !.p_max_pu = Zero, !.p_min_pu = Zero]])

\* Whether madd is given a name the generator table already holds.
name_exists(n, static) == DOMAIN static \cap DOMAIN n.generators # {}

\* Network.madd("Generator", names, attr=series, **static): the components
\* are added unless a name exists already; the series columns are imported.
madd_generator(n, static, attr, series) ==
    [n EXCEPT
        !.generators =
            IF name_exists(n, static) THEN @
            ELSE [g \in DOMAIN @ \cup DOMAIN static |->
                     IF g \in DOMAIN static THEN static[g] ELSE @[g]],
        !.generators_t[attr] =
            [g \in DOMAIN @ \cup DOMAIN series |->
                IF g \in DOMAIN series THEN series[g] ELSE @[g]]]

\* The redispatch network with the original generators fixed to the market result.
fix_dispatch(r, mk) ==
    [r EXCEPT !.generators_t.p_min_pu = realized_ratio(mk),
              !.generators_t.p_max_pu = realized_ratio(mk)]

add_ramp_up(r, mk) == madd_generator(r, g_up(r), "p_max_pu", rename_ramp_up(up(mk)))
add_ramp_down(r, r0, mk) == madd_generator(r, g_down(r0), "p_min_pu", rename_ramp_down(down(mk)))

\* --------------------------------------------------------------- inputs
Buses == {"b1", "b2"}
ZoneValues == Buses \cup {"Z", NaN}

g == <<"g">>
h == <<"h">>
GeneratorNameSets == {{g}, {g, h}, {g, ramp_up(g)}, {g, ramp_down(g)}}

\* Static data of one generator, apart from its bus.
GeneratorData ==
    {[p_nom |-> Rat(2, 1), p_nom_extendable |-> FALSE, p_min_pu |-> Zero, varying |-> FALSE],
     [p_nom |-> Rat(2, 1), p_nom_extendable |-> FALSE, p_min_pu |-> Rat(1, 2), varying |-> FALSE],
     [p_nom |-> Rat(1, 1), p_nom_extendable |-> FALSE, p_min_pu |-> Zero, varying |-> TRUE],
     [p_nom |-> Rat(1, 1), p_nom_extendable |-> FALSE, p_min_pu |-> Rat(-1, 1), varying |-> FALSE],
     [p_nom |-> Zero, p_nom_extendable |-> TRUE, p_min_pu |-> Zero, varying |-> FALSE],
     [p_nom |-> Zero, p_nom_extendable |-> FALSE, p_min_pu |-> Zero, varying |-> TRUE]}

DefaultData == [p_nom |-> Rat(2, 1), p_nom_extendable |-> FALSE, p_min_pu |-> Zero, varying |-> FALSE]
DefaultCountry == [b \in Buses |-> "Z"]
DefaultBranch == [bus0 |-> "b1", bus1 |-> "b2"]
Branches == [bus0 : Buses, bus1 : Buses]

\* pypsa.Network(path): the network as read from file, not solved.
Network(country, data, line, link) ==
    [buses |-> country,
     generators |-> [x \in DOMAIN data |->
        [bus |-> IF x = g THEN "b1" ELSE "b2",
         p_nom |-> data[x].p_nom,
         p_nom_extendable |-> data[x].p_nom_extendable,
         p_nom_opt |-> Zero,
         p_min_pu |-> data[x].p_min_pu,
         p_max_pu |-> One]],
     loads |-> [x \in {"d1", "d2"} |-> [bus |-> IF x = "d1" THEN "b1" ELSE "b2"]],
     lines |-> [x \in {"l1"} |-> line],
     links |-> [x \in {"k1"} |-> link],
     generators_t |->
        [p_min_pu |-> <<>>,
         p_max_pu |-> [x \in {y \in DOMAIN data : data[y].varying} |->
                          [t \in snapshots |-> Rat(1, t)]],
         p |-> <<>>],
     status |-> "unsolved"]

\* The state once set_model, set_folder_paths and set_solver have run.
Init ==
    /\ \E country \in [Buses -> ZoneValues], line \in Branches, link \in Branches,
          names \in GeneratorNameSets :
       \E data \in [names -> GeneratorData] :
          /\ \/ names = {g} /\ data[g] = DefaultData
             \/ country = DefaultCountry /\ line = DefaultBranch /\ link = DefaultBranch
          /\ heap = <<Network(country, data, line, link)>>
    /\ self = [model |-> 1]
    /\ pc = "run_network_model"
    /\ solveLog = <<>>
    /\ exported = {}
    /\ error = "none"

\* ------------------------------------------------------------ operations
hasattr(obj, name) == name \in DOMAIN obj
setattr(obj, name, ref) ==
    [a \in DOMAIN obj \cup {name} |-> IF a = name THEN ref ELSE obj[a]]

\* run_network_model up to the return of optimize
run_network_model ==
    /\ pc = "run_network_model"
    /\ LET ref == copy(heap, self.model)
           h1 == copied(heap, self.model)
       IN  \E o \in SolverOutcomes(h1[ref]) :
              /\ heap' = [h1 EXCEPT ![ref] = optimize(@, o)]
              /\ self' = setattr(self, "network_model", ref)
              /\ solveLog' = Append(solveLog, <<"network_model", o.status>>)
              /\ pc' = IF o.status = "error" THEN "aborted" ELSE "export_network_model"
              /\ error' = IF o.status = "error" THEN "SolverError" ELSE error
    /\ UNCHANGED exported

\* export_model_results(model, model_name)
export_model_results(model_name, next) ==
    /\ pc = "export_" \o model_name
    /\ exported' = exported \cup {model_name}
    /\ pc' = next
    /\ UNCHANGED <<heap, self, solveLog, error>>

export_network_model == export_model_results("network_model", "run_market_model")
export_market_model == export_model_results("market_model", "run_redispatch_model")
export_redispatch_model == export_model_results("redispatch_model", "done")

\* run_market_model up to the call of optimize: copy and aggregate
run_market_model ==
    /\ pc = "run_market_model"
    /\ IF ~hasattr(self, "network_model")
       THEN /\ pc' = "aborted" /\ error' = "AssertionError"
            /\ UNCHANGED <<heap, self>>
       ELSE LET ref == copy(heap, self.model)
                h1 == copied(heap, self.model)
                zones == h1[self.network_model].buses
            IN  /\ heap' = [h1 EXCEPT ![ref] = aggregate(@, zones)]
                /\ self' = setattr(self, "market_model", ref)
                /\ pc' = "optimize_market_model"
                /\ error' = error
    /\ UNCHANGED <<solveLog, exported>>

\* model.optimize(...) of run_market_model and run_redispatch_model: the
\* returned status is not looked at.
optimize_model(model_name) ==
    /\ pc = "optimize_" \o model_name
    /\ \E o \in SolverOutcomes(heap[self[model_name]]) :
          /\ heap' = [heap EXCEPT ![self[model_name]] = optimize(@, o)]
          /\ solveLog' = Append(solveLog, <<model_name, o.status>>)
          /\ pc' = IF o.status = "error" THEN "aborted" ELSE "export_" \o model_name
          /\ error' = IF o.status = "error" THEN "SolverError" ELSE error
    /\ UNCHANGED <<self, exported>>

optimize_market_model == optimize_model("market_model")
optimize_redispatch_model == optimize_model("redispatch_model")

\* run_redispatch_model up to the call of optimize: copy, fix, split.
\* madd with a name that exists either adds nothing and goes on, or raises.
run_redispatch_model ==
    /\ pc = "run_redispatch_model"
    /\ IF ~hasattr(self, "network_model") \/ ~hasattr(self, "market_model")
       THEN /\ pc' = "aborted" /\ error' = "AssertionError"
            /\ UNCHANGED <<heap, self>>
       ELSE LET ref == copy(heap, self.model)
                h1 == copied(heap, self.model)
                mk == h1[self.market_model]
                r0 == fix_dispatch(h1[ref], mk)
                r1 == add_ramp_up(r0, mk)
                r2 == add_ramp_down(r1, r0, mk)
                dup_up == name_exists(r0, g_up(r0))
                dup_down == name_exists(r1, g_down(r0))
            IN  \E on_dup \in (IF dup_up \/ dup_down THEN {"skip", "raise"} ELSE {"skip"}) :
                   /\ self' = setattr(self, "redispatch_model", ref)
                   /\ IF on_dup = "raise"
                      THEN /\ heap' = [h1 EXCEPT ![ref] = IF dup_up THEN r0 ELSE r1]
                           /\ pc' = "aborted"
                           /\ error' = "ValueError"
                      ELSE /\ heap' = [h1 EXCEPT ![ref] = r2]
                           /\ pc' = "optimize_redispatch_model"
                           /\ error' = error
    /\ UNCHANGED <<solveLog, exported>>

\* RedispatchModel.__init__
Next ==
    \/ run_network_model
    \/ export_network_model
    \/ run_market_model
    \/ optimize_market_model
    \/ export_market_model
    \/ run_redispatch_model
    \/ optimize_redispatch_model
    \/ export_redispatch_model

Spec == Init /\ [][Next]_vars

\* ---------------------------------------------------------------- views
model == heap[self.model]
network_model == heap[self.network_model]
market_model == heap[self.market_model]
redispatch_model == heap[self.redispatch_model]

\* The aggregation step of run_market_model has run.
Aggregated == hasattr(self, "market_model")
\* Both madd calls of run_redispatch_model have returned.
SplitDone == hasattr(self, "redispatch_model") /\ error # "ValueError"
\* Some optimize call on the named model ended with a status other than ok.
SolveFailed(model_name) ==
    \E i \in 1..Len(solveLog) : solveLog[i][1] = model_name /\ solveLog[i][2] # "ok"
\* Every optimize call made so far returned the status ok.
AllSolvesOk == \A i \in 1..Len(solveLog) : solveLog[i][2] = "ok"
SolveCalled(model_name) ==
    \E i \in 1..Len(solveLog) : solveLog[i][1] = model_name
\* No original generator carries the name splitting gives to another one.
NamesDistinct ==
    \A a \in DOMAIN model.generators :
        ramp_up(a) \notin DOMAIN model.generators /\ ramp_down(a) \notin DOMAIN model.generators
BranchTypes == {"lines", "links"}

\* ---------------------------------------------------------------- claims

\* C1: when the market model's solve reports infeasibility or any other
\* failure, the market model is not exported, generator splitting is never
\* executed, the redispatch solve is never called and no redispatch_model
\* artifacts are exported. (Stated on the runs whose network model solved ok.)
C1_MarketFailureAbortsPipeline ==
    (SolveFailed("market_model") /\ ~SolveFailed("network_model")) =>
        /\ "market_model" \notin exported
        /\ ~hasattr(self, "redispatch_model")
        /\ ~SolveCalled("redispatch_model")
        /\ "redispatch_model" \notin exported

\* C2: for every branch component type, a branch is present after aggregation
\* if and only if it was present before and its two endpoints do not map to
\* the same zone (an unset country maps to no zone); the number of branches
\* after is the number before minus the number with both endpoints in one zone.
C2_AggregationRemovesExactlyInternal ==
    Aggregated =>
        \A c \in BranchTypes :
            LET before == model[c]
                after == market_model[c]
                zone == model.buses
                same == {b \in DOMAIN before :
                            /\ zone[before[b].bus0] # NaN
                            /\ zone[before[b].bus0] = zone[before[b].bus1]}
            IN  /\ DOMAIN after = DOMAIN before \ same
                /\ Cardinality(DOMAIN after) =
                       Cardinality(DOMAIN before) - Cardinality(same)

\* C2 witness: aggregation removed an intra-zone line and kept a cross-zone link.
C2_Witness ==
    /\ Aggregated
    /\ DOMAIN market_model.lines = {} /\ DOMAIN model.lines # {}
    /\ DOMAIN market_model.links = DOMAIN model.links /\ DOMAIN model.links # {}

\* C3: once run_market_model has started on a network with a bus whose
\* country is unset, UnmappedBusError has been raised and no optimize call
\* (the network model's included) has been made.
C3_UnmappedBusRaisesBeforeAnySolve ==
    (Aggregated /\ \E b \in DOMAIN model.buses : model.buses[b] = NaN) =>
        /\ error = "UnmappedBusError"
        /\ solveLog = <<>>

\* C4: after splitting the redispatch network holds the original generators,
\* one "ramp up" and one "ramp down" generator per original and nothing
\* else: three times as many generators as the source network. (Stated on
\* the runs whose solves all returned ok.)
C4_ThreeGeneratorsPerOriginal ==
    (SplitDone /\ AllSolvesOk) =>
        LET orig == DOMAIN model.generators
            after == DOMAIN redispatch_model.generators
        IN  /\ after = orig \cup {ramp_up(x) : x \in orig} \cup {ramp_down(x) : x \in orig}
            /\ Cardinality(after) = 3 * Cardinality(orig)

\* C5: for every generator with p_nom > 0 and every snapshot, after splitting
\* on a solved market model the ramp-up generator's p_max_pu is >= 0 and the
\* ramp-down generator's p_min_pu is <= 0. (Stated on the runs whose solves
\* all returned ok and whose generator names do not clash.)
C5_RampBoundsHaveTheirSign ==
    (SplitDone /\ NamesDistinct /\ AllSolvesOk) =>
        \A x \in DOMAIN model.generators : \A t \in snapshots :
            (model.generators[x].p_nom.n > 0) =>
                /\ FLeq(Zero, as_dense(redispatch_model, "p_max_pu")[ramp_up(x)][t])
                /\ FLeq(as_dense(redispatch_model, "p_min_pu")[ramp_down(x)][t], Zero)

\* C6: for every generator with p_nom = 0 and every snapshot, the ratio
\* stored as the original generator's p_min_pu and p_max_pu is exactly 0.
\* (Stated on the runs whose solves all returned ok and whose generator names
\* do not clash.)
C6_ZeroCapacityRatioIsZero ==
    (SplitDone /\ NamesDistinct /\ AllSolvesOk) =>
        \A x \in DOMAIN model.generators : \A t \in snapshots :
            (model.generators[x].p_nom = Zero) =>
                /\ as_dense(redispatch_model, "p_min_pu")[x][t] = Zero
                /\ as_dense(redispatch_model, "p_max_pu")[x][t] = Zero

\* C7: when every bus is its own zone, aggregation keeps the set of bus
\* names, the bus of every one-port component, and exactly the branches with
\* two different endpoints, with their endpoints.
C7_AggregationIdempotentOnZoneBuses ==
    (Aggregated /\ \A b \in DOMAIN model.buses : model.buses[b] = b) =>
        /\ DOMAIN market_model.buses = DOMAIN model.buses
        /\ \A x \in DOMAIN model.generators :
               market_model.generators[x].bus = model.generators[x].bus
        /\ DOMAIN market_model.generators = DOMAIN model.generators
        /\ \A x \in DOMAIN model.loads : market_model.loads[x].bus = model.loads[x].bus
        /\ DOMAIN market_model.loads = DOMAIN model.loads
        /\ \A c \in BranchTypes :
               market_model[c] =
                   loc(model[c], {b \in DOMAIN model[c] : model[c][b].bus0 # model[c][b].bus1})

\* C7 witness: an aggregated network whose buses are their own zones, with a
\* line between two buses kept and a link from a bus to itself dropped.
C7_Witness ==
    /\ Aggregated
    /\ \A b \in DOMAIN model.buses : model.buses[b] = b
    /\ DOMAIN market_model.lines # {}
    /\ DOMAIN market_model.links = {}

\* C8: after aggregation the bus set is exactly the set of distinct zone
\* values, and the bus of every one-port component and both endpoints of
\* every remaining branch are in it. (Stated on the runs whose solves all
\* returned ok.)
C8_NoDanglingBusReference ==
    (Aggregated /\ AllSolvesOk) =>
        LET buses == DOMAIN market_model.buses
        IN  /\ buses = unique(model.buses)
            /\ \A x \in DOMAIN market_model.generators : market_model.generators[x].bus \in buses
            /\ \A x \in DOMAIN market_model.loads : market_model.loads[x].bus \in buses
            /\ \A c \in BranchTypes : \A b \in DOMAIN market_model[c] :
                   market_model[c][b].bus0 \in buses /\ market_model[c][b].bus1 \in buses

\* C9: the aggregation step and the splitting step leave the source network
\* (self.model) as it was, and the splitting step leaves the solved market
\* network and the solved network model as they were.
C9_StagesMutateOnlyTheirCopy ==
    [][/\ pc \in {"run_market_model", "run_redispatch_model"} =>
            self'.model = self.model /\ heap'[self.model] = heap[self.model]
       /\ pc = "run_redispatch_model" =>
            /\ self'.market_model = self.market_model
            /\ self'.network_model = self.network_model
            /\ heap'[self.market_model] = heap[self.market_model]
            /\ heap'[self.network_model] = heap[self.network_model]]_vars

\* C9 witness: both steps have run and changed their own copy, on solved
\* network and market models.
C9_Witness ==
    /\ SplitDone
    /\ network_model.status = "ok" /\ market_model.status = "ok"
    /\ market_model.buses # model.buses
    /\ DOMAIN redispatch_model.generators # DOMAIN model.generators
    /\ model.status = "unsolved"

\* C10: for every original generator and every snapshot the ramp-up
\* generator's p_min_pu is 0. (Stated on the runs whose solves all returned ok
\* and whose generator names do not clash.)
C10_RampUpLowerBoundIsZero ==
    (SplitDone /\ NamesDistinct /\ AllSolvesOk) =>
        \A x \in DOMAIN model.generators : \A t \in snapshots :
            as_dense(redispatch_model, "p_min_pu")[ramp_up(x)][t] = Zero

====
